---- MODULE Spec2Model ----
(***************************************************************************)
(* A model of package logging (src/logging/logger.go): the logger factory  *)
(* NewLogger, the environment-derived factory NewLoggerFromEnv, the        *)
(* process-wide default logger guarded by sync.Once, and the context       *)
(* binding WithLogger / FromContext.                                       *)
(*                                                                         *)
(* Go strings are sequences of one-character strings, so that lower-casing *)
(* and trimming are computed character by character. A logger is a record  *)
(* whose id is the identity of the heap instance.                          *)
(***************************************************************************)
EXTENDS Integers, Sequences, FiniteSets, TLC

\* ------------------------------------------------------------------ bounds

\* goroutines of the host process that call into the package
NumGoroutines == 2
\* calls into the package the goroutines make in all
MaxCalls == 2
\* os.Setenv calls the host process makes while the package is in use
MaxSetenv == 1
\* whitespace characters put on each side of a name in the parsing inputs
MaxPad == 1

Goroutines == 1..NumGoroutines

\* --------------------------------------------------------------- strings

UpperChars == <<"A","B","C","D","E","F","G","H","I","J","K","L","M",
                "N","O","P","Q","R","S","T","U","V","W","X","Y","Z">>
LowerChars == <<"a","b","c","d","e","f","g","h","i","j","k","l","m",
                "n","o","p","q","r","s","t","u","v","w","x","y","z">>

\* the characters strings.TrimSpace removes (those of the model's alphabet)
Whitespace == {" ", "\t", "\n"}

ToLowerChar(c) ==
    IF \E i \in DOMAIN UpperChars : UpperChars[i] = c
    THEN LowerChars[CHOOSE i \in DOMAIN UpperChars : UpperChars[i] = c]
    ELSE c

\* strings.ToLower
ToLower(s) == [i \in 1..Len(s) |-> ToLowerChar(s[i])]

RECURSIVE TrimLeft(_)
TrimLeft(s) ==
    IF s # <<>> /\ Head(s) \in Whitespace THEN TrimLeft(Tail(s)) ELSE s

RECURSIVE TrimRight(_)
TrimRight(s) ==
    IF s # <<>> /\ s[Len(s)] \in Whitespace
    THEN TrimRight(SubSeq(s, 1, Len(s) - 1))
    ELSE s

\* strings.TrimSpace
TrimSpace(s) == TrimRight(TrimLeft(s))

S_develop == <<"d","e","v","e","l","o","p">>
S_debug   == <<"d","e","b","u","g">>
S_info    == <<"i","n","f","o">>
S_warn    == <<"w","a","r","n">>
S_error   == <<"e","r","r","o","r">>
S_dpanic  == <<"d","p","a","n","i","c">>
S_panic   == <<"p","a","n","i","c">>
S_fatal   == <<"f","a","t","a","l">>

\* ------------------------------------------------------- stringToZapLevel

stringToZapLevelNoLower(level) ==
    CASE level = S_debug  -> "DebugLevel"
      [] level = S_info   -> "InfoLevel"
      [] level = S_warn   -> "WarnLevel"
      [] level = S_error  -> "ErrorLevel"
      [] level = S_dpanic -> "DPanicLevel"
      [] level = S_panic  -> "PanicLevel"
      [] level = S_fatal  -> "FatalLevel"
      [] OTHER            -> "InfoLevel"

stringToZapLevelTrimmed(level) ==
    stringToZapLevelNoLower(ToLower(TrimSpace(level)))

stringToZapLevel(level) ==
    LET l == ToLower(level) IN
    CASE l = S_debug  -> "DebugLevel"
      [] l = S_info   -> "InfoLevel"
      [] l = S_warn   -> "WarnLevel"
      [] l = S_error  -> "ErrorLevel"
      [] l = S_dpanic -> "DPanicLevel"
      [] l = S_panic  -> "PanicLevel"
      [] l = S_fatal  -> "FatalLevel"
      [] OTHER        -> "InfoLevel"

\* ----------------------------------------------------------------- values

\* A value of Go type any, as context.Value returns it. type "logger" is
\* *zap.SugaredLogger (id NilId: the nil pointer), type "other" any other
\* dynamic type, type "none" the nil interface.
MkValue(t, id, develop, level, nop) ==
    [type |-> t, id |-> id, develop |-> develop, level |-> level, nop |-> nop]

NilId == <<0, 0>>

NilLogger  == MkValue("logger", NilId, FALSE, "none", FALSE)
NoValue    == MkValue("none", NilId, FALSE, "none", FALSE)
OtherValue == MkValue("other", NilId, FALSE, "none", FALSE)

\* loggers the host process built with the engine itself
HostLogger    == MkValue("logger", <<0, 1>>, TRUE, "DebugLevel", FALSE)
RequestLogger == MkValue("logger", <<0, 2>>, FALSE, "ErrorLevel", FALSE)

\* zap.NewNop().Sugar(): a non-nil logger that writes nothing
NopLogger(id) == MkValue("logger", id, FALSE, "none", TRUE)

\* ------------------------------------------------------------- NewLogger

NewLoggerPropagates(develop, level, buildOk, id) ==
    IF buildOk
    THEN MkValue("logger", id, develop, stringToZapLevel(level), FALSE)
    ELSE NilLogger

\* NewLogger(develop, level): buildOk is whether config.Build() returned no
\* error, id the identity of the instance it allocates.
NewLogger(develop, level, buildOk, id) ==
    IF buildOk
    THEN MkValue("logger", id, develop, stringToZapLevel(level), FALSE)
    ELSE NopLogger(id)

\* --------------------------------------------------------------- contexts

\* A context is the chain of its WithValue entries, the innermost last;
\* <<>> is context.Background(). by is a history field: the function that
\* made the entry.
loggerKey == "logging.contextKey(logger)"
otherKey  == "string(logger)"

Entry(key, val, by) == [key |-> key, val |-> val, by |-> by]

RECURSIVE Value(_, _)
\* ctx.Value(key): the innermost entry under key, or the nil interface
Value(ctx, key) ==
    IF ctx = <<>> THEN NoValue
    ELSE IF ctx[Len(ctx)].key = key THEN ctx[Len(ctx)].val
    ELSE Value(SubSeq(ctx, 1, Len(ctx) - 1), key)

WithLoggerStringKey(ctx, logger) ==
    Append(ctx, Entry(otherKey, logger, "WithLogger"))

WithLogger(ctx, logger) == Append(ctx, Entry(loggerKey, logger, "WithLogger"))

AssertOkAnyType(ctx) == Value(ctx, loggerKey).type # "none"

\* the type assertion of FromContext: ctx.Value(loggerKey).(*zap.SugaredLogger)
AssertOk(ctx) == Value(ctx, loggerKey).type = "logger"

\* ------------------------------------------------------------ environment

\* the value of a variable that is not set
Unset == <<"<unset>">>

\* os.Getenv: the value, or "" when the variable is not set
Getenv(e, name) == IF e[name] = Unset THEN <<>> ELSE e[name]

S_WARN       == <<"W","A","R","N">>
S_warnPadded == <<" ","w","a","r","n"," ">>
S_DevelopPadded == <<" ","D","e","v","e","l","o","p"," ">>

\* the values the host process gives LOG_MODE and LOG_LEVEL
HostModes  == {Unset, S_DevelopPadded}
HostLevels == {Unset, S_WARN}
\* the environment the host process starts with
HostEnv == [LOG_MODE |-> Unset, LOG_LEVEL |-> S_WARN]
\* the arguments the host process passes to NewLogger
HostArgs == {<<TRUE, S_warnPadded>>}

\* ------------------------------------------------------------------ state

VARIABLES
    env,            \* the process environment: LOG_MODE, LOG_LEVEL
    env0,           \* history: the environment the process started with
    envChanges,     \* history: os.Setenv calls made so far
    defaultLogger,  \* var defaultLogger *zap.SugaredLogger
    onceDone,       \* defaultLoggerOnce.done
    onceM,          \* defaultLoggerOnce.m: the goroutine holding it, or 0
    pc,             \* each goroutine's position
    stack,          \* each goroutine's frames, the outermost first
    ctx,            \* each goroutine's context.Context
    develop,        \* NewLoggerFromEnv's local develop
    level,          \* NewLoggerFromEnv's local level
    modeRead,       \* history: the LOG_MODE value NewLoggerFromEnv read
    calls,          \* history: calls the goroutines have made
    spawned,        \* goroutines the host process has started
    last,           \* history: the last completed call
    constructions   \* history: runs of the function passed to Once.Do

vars == <<env, env0, envChanges, defaultLogger, onceDone, onceM, pc, stack,
          ctx, develop, level, modeRead, calls, spawned, last,
          constructions>>

holder == <<defaultLogger, onceDone, onceM, constructions>>
envVars == <<env, env0, envChanges>>
nfeLocals == <<develop, level, modeRead>>

\* the record of a completed call
Call(g, op, d, lv, ok, mode, c, result, fallback) ==
    [g |-> g, op |-> op, develop |-> d, level |-> lv, buildOk |-> ok,
     modeRead |-> mode, ctx |-> c, result |-> result, fallback |-> fallback]

NoCall == Call(0, "none", FALSE, <<>>, TRUE, <<>>, <<>>, NoValue, FALSE)

InitWith(envs, gs) ==
    /\ env \in envs
    /\ env0 = env
    /\ envChanges = 0
    /\ defaultLogger = NilLogger
    /\ onceDone = 0
    /\ onceM = 0
    /\ pc = [g \in gs |-> "idle"]
    /\ stack = [g \in gs |-> <<>>]
    /\ ctx = [g \in gs |-> <<>>]
    /\ develop = [g \in gs |-> FALSE]
    /\ level = [g \in gs |-> <<>>]
    /\ modeRead = [g \in gs |-> <<>>]
    /\ calls = 0
    /\ spawned = 0
    /\ last = NoCall
    /\ constructions = 0

Init == InitWith({HostEnv}, Goroutines)

\* a goroutine that may start a call: the host process starts its goroutines
\* in the order of their numbers
Idle(g) == pc[g] = "idle" /\ calls < MaxCalls /\ g <= spawned + 1

\* the identity of the instance g allocates now
NewId(g) == <<g, calls>>

\* ---------------------------------------------------------------- actions

\* g starts a call
Enter(g) ==
    /\ Idle(g)
    /\ calls' = calls + 1
    /\ spawned' = IF g > spawned THEN g ELSE spawned

\* the host process changes a variable of its environment
Setenv(name, value) ==
    /\ envChanges < MaxSetenv
    /\ env[name] # value
    /\ env' = [env EXCEPT ![name] = value]
    /\ envChanges' = envChanges + 1
    /\ UNCHANGED <<env0, holder, pc, stack, ctx, nfeLocals, calls, spawned, last>>

\* g calls NewLogger(d, lv); the engine's build succeeds or fails
CallNewLogger(g, d, lv, ok) ==
    /\ Enter(g)
    /\ last' = Call(g, "NewLogger", d, lv, ok, <<>>, <<>>,
                     NewLogger(d, lv, ok, NewId(g)), FALSE)
    /\ UNCHANGED <<envVars, holder, pc, stack, ctx, nfeLocals>>

ReadModeNoTrim(g) ==
    /\ modeRead' = [modeRead EXCEPT ![g] = Getenv(env, "LOG_MODE")]
    /\ develop' = [develop EXCEPT ![g] =
                     ToLower(Getenv(env, "LOG_MODE")) = S_develop]
    /\ pc' = [pc EXCEPT ![g] = "nfe33"]
    /\ UNCHANGED level

\* line 29: develop := strings.ToLower(strings.TrimSpace(os.Getenv("LOG_MODE"))) == "develop"
ReadMode(g) ==
    /\ modeRead' = [modeRead EXCEPT ![g] = Getenv(env, "LOG_MODE")]
    /\ develop' = [develop EXCEPT ![g] =
                     ToLower(TrimSpace(Getenv(env, "LOG_MODE"))) = S_develop]
    /\ pc' = [pc EXCEPT ![g] = "nfe33"]
    /\ UNCHANGED level

\* line 33: level := os.Getenv("LOG_LEVEL")
ReadLevel(g) == level' = [level EXCEPT ![g] = Getenv(env, "LOG_LEVEL")]

\* g calls NewLoggerFromEnv() and runs it to line 29
CallNewLoggerFromEnv(g) ==
    /\ Enter(g)
    /\ stack' = [stack EXCEPT ![g] = <<"NewLoggerFromEnv">>]
    /\ ReadMode(g)
    /\ UNCHANGED <<envVars, holder, ctx, last>>

NfeReturnCaches(g, ok) ==
    /\ pc[g] = "nfe33"
    /\ stack[g] = <<"NewLoggerFromEnv">>
    /\ ReadLevel(g)
    /\ stack' = [stack EXCEPT ![g] = <<>>]
    /\ pc' = [pc EXCEPT ![g] = "idle"]
    /\ last' = Call(g, "NewLoggerFromEnv", develop[g], level'[g], ok,
                     modeRead[g], <<>>,
                     NewLogger(develop[g], level'[g], ok, NewId(g)), FALSE)
    /\ defaultLogger' = last'.result
    /\ UNCHANGED <<envVars, onceDone, onceM, constructions, ctx, develop,
                   modeRead, calls, spawned>>

\* lines 33-35 of a call of NewLoggerFromEnv by the host process:
\* return NewLogger(develop, level)
NfeReturn(g, ok) ==
    /\ pc[g] = "nfe33"
    /\ stack[g] = <<"NewLoggerFromEnv">>
    /\ ReadLevel(g)
    /\ stack' = [stack EXCEPT ![g] = <<>>]
    /\ pc' = [pc EXCEPT ![g] = "idle"]
    /\ last' = Call(g, "NewLoggerFromEnv", develop[g], level'[g], ok,
                     modeRead[g], <<>>,
                     NewLogger(develop[g], level'[g], ok, NewId(g)), FALSE)
    /\ UNCHANGED <<envVars, holder, ctx, develop, modeRead, calls, spawned>>

\* line 62, Once.Do: if o.done.Load() == 0 { o.doSlow(f) }
OnceDo(g) == pc' = [pc EXCEPT ![g] = IF onceDone = 0 THEN "doSlow" ELSE "dl65"]

\* g calls DefaultLogger() and runs it to the load of Once.Do
CallDefaultLogger(g) ==
    /\ Enter(g)
    /\ stack' = [stack EXCEPT ![g] = <<"DefaultLogger">>]
    /\ OnceDo(g)
    /\ UNCHANGED <<envVars, holder, ctx, nfeLocals, last>>

OnceDoSlowNoRecheck(g) ==
    /\ pc[g] = "doSlow"
    /\ onceM = 0
    /\ onceM' = g
    /\ stack' = [stack EXCEPT ![g] = Append(@, "NewLoggerFromEnv")]
    /\ pc' = [pc EXCEPT ![g] = "nfe29"]
    /\ UNCHANGED <<envVars, defaultLogger, onceDone, constructions, ctx,
                   nfeLocals, calls, spawned, last>>

OnceDoSlowEarlyDone(g) ==
    /\ pc[g] = "doSlow"
    /\ onceM = 0
    /\ onceM' = g
    /\ onceDone' = 1
    /\ IF onceDone = 0
       THEN /\ stack' = [stack EXCEPT ![g] = Append(@, "NewLoggerFromEnv")]
            /\ pc' = [pc EXCEPT ![g] = "nfe29"]
       ELSE /\ pc' = [pc EXCEPT ![g] = "unlock"]
            /\ UNCHANGED stack
    /\ UNCHANGED <<envVars, defaultLogger, constructions, ctx, nfeLocals,
                   calls, spawned, last>>

\* Once.doSlow: o.m.Lock(); if o.done.Load() == 0 { f() }
OnceDoSlow(g) ==
    /\ pc[g] = "doSlow"
    /\ onceM = 0
    /\ onceM' = g
    /\ IF onceDone = 0
       THEN /\ stack' = [stack EXCEPT ![g] = Append(@, "NewLoggerFromEnv")]
            /\ pc' = [pc EXCEPT ![g] = "nfe29"]
       ELSE /\ pc' = [pc EXCEPT ![g] = "unlock"]
            /\ UNCHANGED stack
    /\ UNCHANGED <<envVars, defaultLogger, onceDone, constructions, ctx,
                   nfeLocals, calls, spawned, last>>

\* line 29, in the function passed to Once.Do
OnceReadMode(g) ==
    /\ pc[g] = "nfe29"
    /\ ReadMode(g)
    /\ UNCHANGED <<envVars, holder, stack, ctx, calls, spawned, last>>

\* line 33, in the function passed to Once.Do
OnceReadLevel(g) ==
    /\ pc[g] = "nfe33"
    /\ stack[g] # <<"NewLoggerFromEnv">>
    /\ ReadLevel(g)
    /\ pc' = [pc EXCEPT ![g] = "nfe35"]
    /\ UNCHANGED <<envVars, holder, stack, ctx, develop, modeRead, calls,
                   spawned, last>>

\* lines 35 and 63, in the function passed to Once.Do:
\* defaultLogger = NewLoggerFromEnv()
DlAssign(g, ok) ==
    /\ pc[g] = "nfe35"
    /\ defaultLogger' = NewLogger(develop[g], level[g], ok, NewId(g))
    /\ constructions' = constructions + 1
    /\ stack' = [stack EXCEPT ![g] = SubSeq(@, 1, Len(@) - 1)]
    /\ pc' = [pc EXCEPT ![g] = "store"]
    /\ UNCHANGED <<envVars, onceDone, onceM, ctx, nfeLocals, calls, spawned,
                   last>>

\* Once.doSlow, deferred: o.done.Store(1)
OnceStore(g) ==
    /\ pc[g] = "store"
    /\ onceDone' = 1
    /\ pc' = [pc EXCEPT ![g] = "unlock"]
    /\ UNCHANGED <<envVars, defaultLogger, onceM, constructions, stack, ctx,
                   nfeLocals, calls, spawned, last>>

\* Once.doSlow, deferred: o.m.Unlock()
OnceUnlock(g) ==
    /\ pc[g] = "unlock"
    /\ onceM' = 0
    /\ pc' = [pc EXCEPT ![g] = "dl65"]
    /\ UNCHANGED <<envVars, defaultLogger, onceDone, constructions, stack, ctx,
                   nfeLocals, calls, spawned, last>>

\* line 65: return defaultLogger, to the caller or to FromContext (line 109)
DlReturn(g) ==
    /\ pc[g] = "dl65"
    /\ last' = Call(g, stack[g][1], FALSE, <<>>, TRUE, <<>>, ctx[g],
                     defaultLogger, stack[g][1] = "FromContext")
    /\ stack' = [stack EXCEPT ![g] = <<>>]
    /\ pc' = [pc EXCEPT ![g] = "idle"]
    /\ UNCHANGED <<envVars, holder, ctx, nfeLocals, calls, spawned>>

\* g calls WithLogger(c, logger) and keeps the context it returns
CallWithLogger(g, c, logger) ==
    /\ Enter(g)
    /\ ctx' = [ctx EXCEPT ![g] = WithLogger(c, logger)]
    /\ last' = Call(g, "WithLogger", FALSE, <<>>, TRUE, <<>>, c, logger, FALSE)
    /\ UNCHANGED <<envVars, holder, pc, stack, nfeLocals>>

\* code that holds g's context wraps it with context.WithValue(ctx, key, val)
CallWithValue(g, key, val) ==
    /\ Enter(g)
    /\ ctx' = [ctx EXCEPT ![g] = Append(@, Entry(key, val, "WithValue"))]
    /\ UNCHANGED <<envVars, holder, pc, stack, nfeLocals, last>>

\* g calls FromContext(ctx): lines 106-108 return the attached logger, line
\* 109 calls DefaultLogger, here to the load of Once.Do
CallFromContext(g) ==
    /\ Enter(g)
    /\ IF AssertOk(ctx[g])
       THEN /\ last' = Call(g, "FromContext", FALSE, <<>>, TRUE, <<>>, ctx[g],
                            Value(ctx[g], loggerKey), FALSE)
            /\ UNCHANGED <<pc, stack>>
       ELSE /\ stack' = [stack EXCEPT ![g] = <<"FromContext", "DefaultLogger">>]
            /\ OnceDo(g)
            /\ UNCHANGED last
    /\ UNCHANGED <<envVars, holder, ctx, nfeLocals>>

\* the loggers the host process passes to WithLogger: its own, or nil
Held == {HostLogger, NilLogger}

\* the contexts g passes to WithLogger: the one it holds, or a request's
\* context to which the host process attached a logger before
Contexts(g) == {ctx[g], WithLogger(<<>>, RequestLogger)}

Next ==
    \/ \E value \in HostModes : Setenv("LOG_MODE", value)
    \/ \E value \in HostLevels : Setenv("LOG_LEVEL", value)
    \/ \E g \in Goroutines, a \in HostArgs, ok \in BOOLEAN :
          CallNewLogger(g, a[1], a[2], ok)
    \/ \E g \in Goroutines : CallNewLoggerFromEnv(g)
    \/ \E g \in Goroutines, ok \in BOOLEAN : NfeReturn(g, ok)
    \/ \E g \in Goroutines : CallDefaultLogger(g)
    \/ \E g \in Goroutines : OnceDoSlow(g)
    \/ \E g \in Goroutines : OnceReadMode(g)
    \/ \E g \in Goroutines : OnceReadLevel(g)
    \/ \E g \in Goroutines, ok \in BOOLEAN : DlAssign(g, ok)
    \/ \E g \in Goroutines : OnceStore(g)
    \/ \E g \in Goroutines : OnceUnlock(g)
    \/ \E g \in Goroutines : DlReturn(g)
    \/ \E g \in Goroutines, logger \in Held : \E c \in Contexts(g) :
          CallWithLogger(g, c, logger)
    \/ \E g \in Goroutines : CallWithValue(g, otherKey, HostLogger)
    \/ \E g \in Goroutines : CallWithValue(g, loggerKey, OtherValue)
    \/ \E g \in Goroutines : CallFromContext(g)

Spec == Init /\ [][Next]_vars

\* ------------------------------------------------------- the parsing inputs

PadChars == {" ", "\t"}

UpperOf(c) ==
    IF \E i \in DOMAIN LowerChars : LowerChars[i] = c
    THEN UpperChars[CHOOSE i \in DOMAIN LowerChars : LowerChars[i] = c]
    ELSE c

RECURSIVE CaseVariants(_)
\* every spelling of name in upper and lower case letters
CaseVariants(name) ==
    IF name = <<>> THEN {<<>>}
    ELSE LET rest == CaseVariants(Tail(name)) IN
         {<<c>> \o r : c \in {Head(name), UpperOf(Head(name))}, r \in rest}

Pads == UNION {[1..n -> PadChars] : n \in 0..MaxPad}

Padded(S) == {l \o x \o r : l \in Pads, x \in S, r \in Pads}

LevelNames == {S_debug, S_info, S_warn, S_error, S_dpanic, S_panic, S_fatal}

LevelJunk == {<<>>, <<" ">>, <<"w","a","r","n","i","n","g">>, <<"i","n","f">>,
              <<"t","r","a","c","e">>, <<"w"," ","a","r","n">>,
              <<"w","a","r","n","1">>}

ModeJunk == {<<>>, <<" ">>, <<"d","e","v">>, <<"d","e","v","e","l","o","p","e","r">>,
             <<"p","r","o","d","u","c","t","i","o","n">>,
             <<"d","e","v","e","l"," ","o","p">>}

\* the level strings given to NewLogger and in LOG_LEVEL
LevelInputs == Padded(UNION {CaseVariants(n) : n \in LevelNames}) \cup LevelJunk

\* the values of LOG_MODE
ModeInputs == Padded(CaseVariants(S_develop)) \cup ModeJunk

EnvUnset == [LOG_MODE |-> Unset, LOG_LEVEL |-> Unset]

ParseEnvs ==
    {EnvUnset}
    \cup {[LOG_MODE |-> m, LOG_LEVEL |-> l] : m \in ModeInputs, l \in {Unset, S_WARN}}
    \cup {[LOG_MODE |-> Unset, LOG_LEVEL |-> l] : l \in LevelInputs}

\* One goroutine calls the two factories on the parsing inputs: NewLogger
\* once, on any level string, and NewLoggerFromEnv in any environment.
ParseInit == InitWith(ParseEnvs, {1})

ParseNext ==
    \/ /\ env = EnvUnset /\ calls = 0
       /\ \E d \in BOOLEAN, lv \in LevelInputs, ok \in BOOLEAN :
             CallNewLogger(1, d, lv, ok)
    \/ CallNewLoggerFromEnv(1)
    \/ \E ok \in BOOLEAN : NfeReturn(1, ok)

SpecParse == ParseInit /\ [][ParseNext]_vars

\* ------------------------------------------------------------------ claims

\* s spells name, letter for letter, in upper or lower case
FoldsTo(s, name) ==
    /\ Len(s) = Len(name)
    /\ \A i \in 1..Len(name) :
          \/ s[i] = name[i]
          \/ \E k \in DOMAIN LowerChars :
                LowerChars[k] = name[i] /\ UpperChars[k] = s[i]

\* s is a spelling of name between two runs of whitespace, each possibly empty
PaddedSpelling(s, name) ==
    \E i \in 1..(Len(s) + 1), j \in 0..Len(s) :
        /\ \A k \in 1..(i - 1) : s[k] \in Whitespace
        /\ \A k \in (j + 1)..Len(s) : s[k] \in Whitespace
        /\ i <= j
        /\ FoldsTo(SubSeq(s, i, j), name)

LevelTable == {<<S_debug, "DebugLevel">>, <<S_info, "InfoLevel">>,
               <<S_warn, "WarnLevel">>, <<S_error, "ErrorLevel">>,
               <<S_dpanic, "DPanicLevel">>, <<S_panic, "PanicLevel">>,
               <<S_fatal, "FatalLevel">>}

\* the level the spec gives a string: that of the name it spells, else info
ExpectedLevel(s) ==
    IF \E p \in LevelTable : FoldsTo(s, p[1])
    THEN (CHOOSE p \in LevelTable : FoldsTo(s, p[1]))[2]
    ELSE "InfoLevel"

NonNil(v) == v.type = "logger" /\ v.id # NilId

Factory(c) == c.op \in {"NewLogger", "NewLoggerFromEnv"}

\* a completed call that returned the default logger
DefaultReturn(c) == c.op = "DefaultLogger" \/ (c.op = "FromContext" /\ c.fallback)

\* g is in DefaultLogger, called by the host process or by FromContext
InDefault(g) == stack[g] # <<>> /\ stack[g][1] \in {"DefaultLogger", "FromContext"}

C1_State ==
    /\ constructions <= 1
    /\ onceDone = 1 => constructions = 1
    /\ DefaultReturn(last) =>
          last.result = defaultLogger /\ onceDone = 1 /\ constructions = 1

\* C1: over all interleavings of DefaultLogger calls and FromContext
\* fallbacks the construction runs at most once, exactly once when the holder
\* is Initialized; every such call returns the stored instance; and once the
\* holder is Initialized the stored logger never changes.
C1_ExactlyOnce ==
    [][/\ C1_State /\ C1_State'
       /\ constructions' >= constructions
       /\ onceDone = 1 => defaultLogger' = defaultLogger /\ onceDone' = 1]_vars

\* two concurrent first-time accesses, one through FromContext: one has
\* returned and the other is about to
C1_Witness ==
    /\ last.op = "FromContext" /\ last.fallback /\ last.g = 2
    /\ pc[1] = "dl65" /\ stack[1] = <<"DefaultLogger">>
    /\ constructions = 1

\* C2: DefaultLogger never returns nil: a goroutine at the return of line 65
\* sees the holder Initialized and the stored logger non-nil, so a caller that
\* arrived during the construction returns only after the store, and returns
\* the stored instance.
C2_NeverNil ==
    /\ \A g \in DOMAIN pc :
          pc[g] = "dl65" => onceDone = 1 /\ NonNil(defaultLogger)
    /\ \A g \in DOMAIN pc :
          pc[g] \in {"nfe29", "nfe33", "nfe35", "store", "unlock"} /\ InDefault(g)
             => onceM = g
    /\ DefaultReturn(last) => NonNil(last.result) /\ last.result = defaultLogger

\* a caller that loaded done = 0, waited for the mutex and found the logger
\* another goroutine had constructed and stored
C2_Witness ==
    \E g \in DOMAIN pc :
        /\ pc[g] = "unlock" /\ onceM = g /\ onceDone = 1
        /\ NonNil(defaultLogger) /\ defaultLogger.id[1] # g

\* C3: FromContext(WithLogger(ctx, L)) returns exactly L, whatever ctx held
\* before, and does not fall back to the default logger.
C3_RoundTrip ==
    (last.op = "FromContext" /\ last.ctx # <<>>
        /\ last.ctx[Len(last.ctx)].by = "WithLogger")
    => last.result = last.ctx[Len(last.ctx)].val /\ ~last.fallback

\* the round trip on a context that carried another logger
C3_Witness ==
    /\ last.op = "FromContext"
    /\ last.ctx = WithLogger(WithLogger(<<>>, RequestLogger), HostLogger)
    /\ last.result = HostLogger

\* no entry of c is under the logger key
NoLoggerEntry(c) == \A i \in 1..Len(c) : c[i].key # loggerKey

\* the innermost entry of c under the logger key is not of the logger type
WrongTyped(c) ==
    \E i \in 1..Len(c) :
        /\ c[i].key = loggerKey /\ c[i].val.type # "logger"
        /\ \A j \in (i + 1)..Len(c) : c[j].key # loggerKey

\* C4: on a context with no value under the logger key, or with a value there
\* that is not a logger, FromContext returns the default logger's instance,
\* initializing it first.
C4_Fallback ==
    (last.op = "FromContext" /\ (NoLoggerEntry(last.ctx) \/ WrongTyped(last.ctx)))
    => /\ last.fallback
       /\ last.result = defaultLogger
       /\ onceDone = 1 /\ NonNil(last.result)

\* the fallback on a wrong-typed value
C4_Witness ==
    /\ last.op = "FromContext" /\ WrongTyped(last.ctx)
    /\ last.fallback /\ last.result = defaultLogger /\ NonNil(defaultLogger)

\* C5: FromContext always returns a non-nil logger, whatever logger value
\* WithLogger attached.
C5_FromContextNonNil == last.op = "FromContext" => NonNil(last.result)

\* C6: NewLogger returns a non-nil logger for every input, and the no-op
\* logger when the engine's build fails.
C6_NeverFails ==
    Factory(last) =>
        /\ NonNil(last.result)
        /\ ~last.buildOk => last.result.nop
        /\ last.buildOk => ~last.result.nop

C6_Witness ==
    /\ last.op = "NewLogger" /\ ~last.buildOk
    /\ NonNil(last.result) /\ last.result.nop

C8_Trimmed ==
    (Factory(last) /\ last.buildOk) =>
        \A p \in LevelTable :
            PaddedSpelling(last.level, p[1]) => last.result.level = p[2]

\* C8 amended: the level string is not trimmed: one that begins or ends with
\* whitespace resolves to info, from NewLogger and from NewLoggerFromEnv.
C8_NotTrimmed ==
    (Factory(last) /\ last.buildOk /\ last.level # <<>>
        /\ (Head(last.level) \in Whitespace
              \/ last.level[Len(last.level)] \in Whitespace))
    => last.result.level = "InfoLevel"

C8_Witness ==
    /\ last.op = "NewLoggerFromEnv" /\ last.buildOk
    /\ env["LOG_LEVEL"] = S_warnPadded
    /\ last.level = S_warnPadded
    /\ last.result.level = "InfoLevel"

\* C9: NewLoggerFromEnv is NewLogger of (develop, LOG_LEVEL), develop being
\* whether LOG_MODE spells "develop" between whitespace; with LOG_MODE unset
\* and LOG_LEVEL "WARN" the logger is a production logger at warn.
C9_FromEnv ==
    last.op = "NewLoggerFromEnv" =>
        LET dev == env["LOG_MODE"] # Unset
                     /\ PaddedSpelling(env["LOG_MODE"], S_develop)
            lv  == IF env["LOG_LEVEL"] = Unset THEN <<>> ELSE env["LOG_LEVEL"]
        IN /\ last.develop = dev
           /\ last.level = lv
           /\ last.result.develop = (dev /\ last.buildOk)
           /\ last.buildOk => last.result.level = ExpectedLevel(lv)
           /\ (env["LOG_MODE"] = Unset /\ env["LOG_LEVEL"] = S_WARN /\ last.buildOk)
                 => ~last.result.develop /\ last.result.level = "WarnLevel"

C9_Witness ==
    /\ last.op = "NewLoggerFromEnv" /\ last.buildOk
    /\ env["LOG_MODE"] = S_DevelopPadded
    /\ last.result.develop

\* C10: the holder changes only in steps of a goroutine that is in
\* DefaultLogger, so calls of NewLogger, NewLoggerFromEnv, WithLogger and
\* FromContext on an attached logger leave it Uninitialized; and the default
\* logger is built from the environment as it is read in that call.
C10_Lazy ==
    [][/\ holder' # holder =>
             \E g \in DOMAIN pc : InDefault(g) /\ pc'[g] # pc[g]
       /\ \A g \in DOMAIN pc :
             (InDefault(g) /\ pc[g] = "nfe29" /\ pc'[g] # pc[g]) =>
                 /\ onceDone = 0 /\ onceM = g
                 /\ develop'[g] = PaddedSpelling(Getenv(env, "LOG_MODE"), S_develop)
       /\ \A g \in DOMAIN pc :
             (InDefault(g) /\ pc[g] = "nfe33" /\ pc'[g] # pc[g]) =>
                 level'[g] = Getenv(env, "LOG_LEVEL")
       /\ defaultLogger' # defaultLogger =>
             /\ defaultLogger = NilLogger /\ onceDone = 0
             /\ \E g \in DOMAIN pc :
                   /\ onceM = g
                   /\ defaultLogger'.nop \/
                         /\ defaultLogger'.develop = develop[g]
                         /\ defaultLogger'.level = ExpectedLevel(level[g])]_vars

\* a NewLogger call made while the holder was Uninitialized, then the default
\* logger built from a LOG_MODE that was set after the process started
C10_Witness ==
    /\ last.op = "NewLogger" /\ onceDone = 1
    /\ last.result.id[2] < defaultLogger.id[2]
    /\ env0["LOG_MODE"] = Unset /\ defaultLogger.develop

====
